---- MODULE Spec2Model ----
(***************************************************************************)
(* TH Consumption Record: the App component of src/src/App.tsx and the     *)
(* store client of src/src/supabase.ts as a state machine.                 *)
(*                                                                         *)
(* The component's React state, the remote store's four tables and the     *)
(* handler invocations suspended at an await are the state.  Every handler *)
(* runs atomically from one await to the next (the JavaScript event loop), *)
(* so each action is one such segment.  A request has three moments: it is *)
(* issued by the handler (phase "sent"), served by the store (phase        *)
(* "answered", the response fixed), and resumed in the handler.            *)
(*                                                                         *)
(* Strings are TLA+ strings; their JavaScript order is the table Collation.*)
(* Amounts are held in hundredths (4.5 is 450); created_at is the store's  *)
(* insertion tick.                                                         *)
(***************************************************************************)
EXTENDS Integers, Sequences, FiniteSets, TLC

\* ------------------------------------------------------------ bounds

\* Invocations of fetchData, handleAddTransaction, handleDeleteTransaction and
\* handleSearch that issue a request in one behaviour, the mount's fetchData
\* and the refresh that ends an insert included.
MaxCalls == 4
\* The same in the specification of the paged grid.
PagedCalls == 2
\* Transactions the store holds at start in the small specification.
NumSeeds == 2

\* --------------------------------------------------- program constants

itemsPerPage == 10
LoadLimit == 100

NULL == "null"

ConfigMsg == "Supabase configuration is incomplete."
NetworkMsg == "Network Error: Failed to reach Supabase."
SupabaseMsg == "Supabase Error"

\* getLocalDate(): the session's current day.
getLocalDate == "2024-01-15"

\* ---------------------------------------------------------- universe

\* The strings of the model in JavaScript's (code unit) order.
Collation ==
  << "", "2024-01-01", "2024-01-15", "2024-01-31", "2024-02-01",
     "Alice", "Cafe X", "Checking", "Coffee", "Food", "Rent" >>

Rank(s) == CHOOSE i \in DOMAIN Collation : Collation[i] = s

\* a < b on two strings.
StrLess(a, b) == Rank(a) < Rank(b)

\* What the user can type into the record form (date, category, item,
\* vendor, amount, fromAccount, paidBy).
FormInputs ==
  { [date |-> "2024-01-15", category |-> "Food", item |-> "Coffee",
     vendor |-> "Cafe X", amount |-> "4.5", fromAccount |-> "Checking",
     paidBy |-> "Alice"],
    [date |-> "2024-02-01", category |-> "Rent", item |-> "Coffee",
     vendor |-> "Cafe X", amount |-> "12", fromAccount |-> "Checking",
     paidBy |-> "Alice"] }

\* What the user can set in the search form.
SearchInputs ==
  { [fromDate |-> "2024-01-01", toDate |-> "", searchCategory |-> "Food"] }

\* The environment's two connection parameters, as the build injects them.
EnvInputs ==
  { [url |-> "https://th.supabase.co", key |-> "anon-key"],
    [url |-> "", key |-> "anon-key"],
    [url |-> "https://th.supabase.co", key |-> "placeholder-key"] }

\* String.prototype.includes('placeholder') on the environment's values.
IncludesPlaceholder(s) == s \in {"https://placeholder.supabase.co", "placeholder-key"}

\* parseFloat on the amount field's strings, in hundredths.
parseFloat(s) ==
  CASE s = "4.5" -> 450
    [] s = "12" -> 1200
    [] s = "0" -> 0

\* ------------------------------------------------------------- state

VARIABLES
  \* import.meta.env
  VITE_SUPABASE_URL, VITE_SUPABASE_ANON_KEY,
  \* the remote store
  dbTransactions, dbCategories, dbAccounts, dbPayers, nextId,
  \* React state of App
  activeTab, date, category, item, vendor, amount, fromAccount, paidBy,
  isSubmitting, fromDate, toDate, searchCategory, searchResults,
  currentPage, sortConfig, categories, accounts, payers, allTransactions,
  isLoading, error,
  \* the file the browser was last handed for download (none: NoDownload)
  download,
  \* handler invocations suspended at an await, each kind in issue order
  loads, adds, deletes, searches,
  \* bookkeeping: useEffect has run; the invocations the behaviour may still
  \* start (an insert takes two at its start, one for its refresh, and gives that
  \* one back when it fails); how the last handler segment ended
  mounted, credit, lastStep

envVars == << VITE_SUPABASE_URL, VITE_SUPABASE_ANON_KEY >>
dbVars == << dbTransactions, dbCategories, dbAccounts, dbPayers, nextId >>
formVars == << date, category, item, vendor, amount, fromAccount, paidBy >>
searchFormVars == << fromDate, toDate, searchCategory >>
lookupVars == << categories, accounts, payers >>
viewVars == << activeTab, currentPage, sortConfig >>
callVars == << loads, adds, deletes, searches >>

vars ==
  << envVars, dbVars, formVars, searchFormVars, lookupVars, viewVars, callVars,
     isSubmitting, searchResults, allTransactions, isLoading, error,
     download, mounted, credit, lastStep >>

\* --------------------------------------------------------- sequences

RemoveAt(s, i) == SubSeq(s, 1, i - 1) \o SubSeq(s, i + 1, Len(s))

Take(s, n) == SubSeq(s, 1, IF Len(s) < n THEN Len(s) ELSE n)

\* The records of set S as a sequence, a before b when <<a, b>> is in before
\* (a strict total order on S).
OrderBy(S, before) ==
  LET pos(a) == 1 + Cardinality({ b \in S : << b, a >> \in before })
  IN [ i \in 1..Cardinality(S) |-> CHOOSE a \in S : pos(a) = i ]

\* ------------------------------------------------------ remote store

\* A stored transaction.
Seed(i) ==
  [id |-> i,
   date |-> Collation[2 + (i % 4)],
   category |-> "Food", item |-> "Coffee", vendor |-> "Cafe X",
   amount |-> 100 * i, from_account |-> "Checking", paid_by |-> "Alice",
   created_at |-> i]

\* A lookup table's rows: ids are serial, and no row is ever deleted.
LookupRows(names) == { [id |-> i, name |-> names[i]] : i \in DOMAIN names }

\* from(table).select('*').order('name')
SelectLookup(names) ==
  LET rows == LookupRows(names)
      Before(a, b) == StrLess(a.name, b.name) \/ (a.name = b.name /\ a.id < b.id)
  IN OrderBy(rows, { p \in rows \X rows : Before(p[1], p[2]) })

\* from('transactions').select('*').order('created_at', {ascending: false}).limit(100)
SelectRecent ==
  LET rows == dbTransactions
      Before(a, b) == a.created_at > b.created_at
  IN Take(OrderBy(rows, { p \in rows \X rows : Before(p[1], p[2]) }), LoadLimit)

\* supabase.ts: the client is built on a placeholder when a parameter is missing,
\* and no store answers there.
StoreReachable ==
  /\ VITE_SUPABASE_URL # ""
  /\ VITE_SUPABASE_ANON_KEY # ""
  /\ ~IncludesPlaceholder(VITE_SUPABASE_URL)
  /\ ~IncludesPlaceholder(VITE_SUPABASE_ANON_KEY)

\* How a request can end: answered, rejected by the store, or never reaching it.
Outcomes == IF StoreReachable THEN {"ok", "rejected", "unreachable"} ELSE {"unreachable"}

\* The same for a handler that tells a rejection and a transport failure apart
\* in nothing: both are the result's error.
Answers == IF StoreReachable THEN {"ok", "error"} ELSE {"error"}

\* ----------------------------------------------------- derived view

\* searchResults: null, or a held collection (possibly empty).
Null == [null |-> TRUE, rows |-> << >>]
Held(rows) == [null |-> FALSE, rows |-> rows]

\* a[key] < b[key] as JavaScript compares two field values of one type.
FieldLess(a, b, key) ==
  CASE key = "date" -> StrLess(a.date, b.date)
    [] key = "category" -> StrLess(a.category, b.category)
    [] key = "item" -> StrLess(a.item, b.item)
    [] key = "vendor" -> StrLess(a.vendor, b.vendor)
    [] key = "amount" -> a.amount < b.amount
    [] key = "from_account" -> StrLess(a.from_account, b.from_account)
    [] key = "paid_by" -> StrLess(a.paid_by, b.paid_by)
    [] key = "created_at" -> a.created_at < b.created_at

\* The sort comparator's sign for (a, b).
Compare(a, b, cfg) ==
  IF FieldLess(a, b, cfg.key) THEN (IF cfg.direction = "asc" THEN -1 ELSE 1)
  ELSE IF FieldLess(b, a, cfg.key) THEN (IF cfg.direction = "asc" THEN 1 ELSE -1)
  ELSE 0

\* The last index of sorted, at most k, whose element the comparator does not
\* put after x (0: none).
RECURSIVE InsertAfter(_, _, _, _)
InsertAfter(sorted, x, cfg, k) ==
  IF k = 0 THEN 0
  ELSE IF Compare(sorted[k], x, cfg) <= 0 THEN k
  ELSE InsertAfter(sorted, x, cfg, k - 1)

\* sorted with x put behind the last element the comparator does not put
\* after it.
InsertSorted(sorted, x, cfg) ==
  LET k == InsertAfter(sorted, x, cfg, Len(sorted))
  IN SubSeq(sorted, 1, k) \o << x >> \o SubSeq(sorted, k + 1, Len(sorted))

\* [...data].sort(comparator): Array.prototype.sort is stable.
RECURSIVE StableSort(_, _)
StableSort(data, cfg) ==
  IF data = << >> THEN << >>
  ELSE InsertSorted(StableSort(SubSeq(data, 1, Len(data) - 1), cfg),
                    data[Len(data)], cfg)

sortedData ==
  StableSort(IF activeTab = "input" THEN allTransactions ELSE searchResults.rows,
             sortConfig)

\* Array.prototype.slice(from, to) on 0-based indices.
Slice(s, from, to) ==
  LET lo == IF from > Len(s) THEN Len(s) ELSE from
      hi == IF to > Len(s) THEN Len(s) ELSE to
  IN SubSeq(s, lo + 1, hi)

\* paginatedData as it is computed when currentPage is page.
PageAt(page) ==
  LET startIndex == (page - 1) * itemsPerPage
  IN Slice(sortedData, startIndex, startIndex + itemsPerPage)

paginatedData == PageAt(currentPage)

\* A page count that rounds down.
totalPagesFloor == Len(sortedData) \div itemsPerPage

\* Math.ceil(sortedData.length / itemsPerPage)
totalPages == (Len(sortedData) + itemsPerPage - 1) \div itemsPerPage

\* How the handler segment that ran last ended: its name, the transaction id it
\* was about (0: none) and the row it was about (none: << >>).  NoStep after a
\* segment that ends at an await, a step of the store or a view handler.
Step(name, id, row) == [name |-> name, id |-> id, row |-> row]
NoStep == Step("none", 0, << >>)

\* ---------------------------------------------------------- fetchData

Tables == {"categories", "accounts", "payers", "transactions"}

\* The selects that a store rejecting part of a load rejects.
RejectSets == { {"transactions"} }

NoResponse ==
  [failed |-> {}, network |-> FALSE, categories |-> << >>, accounts |-> << >>,
   payers |-> << >>, transactions |-> << >>]

\* The four results of Promise.all, read from the store as it is now.
LoadResponse(failed, network) ==
  [failed |-> failed, network |-> network,
   categories |-> IF "categories" \in failed THEN << >> ELSE SelectLookup(dbCategories),
   accounts |-> IF "accounts" \in failed THEN << >> ELSE SelectLookup(dbAccounts),
   payers |-> IF "payers" \in failed THEN << >> ELSE SelectLookup(dbPayers),
   transactions |-> IF "transactions" \in failed THEN << >> ELSE SelectRecent]

\* The configuration test at the head of fetchData.
ConfigIncomplete ==
  \/ VITE_SUPABASE_URL = ""
  \/ VITE_SUPABASE_ANON_KEY = ""
  \/ IncludesPlaceholder(VITE_SUPABASE_URL)
  \/ IncludesPlaceholder(VITE_SUPABASE_ANON_KEY)

\* fetchData up to its await: the configuration test, the two setters and the
\* four selects issued together.  refreshOf notes the row whose insert called
\* it (none: << >>); the code never reads it.
fetchData(refreshOf) ==
  IF ConfigIncomplete
  THEN /\ error' = ConfigMsg
       /\ isLoading' = FALSE
       /\ UNCHANGED loads
  ELSE /\ isLoading' = TRUE
       /\ error' = NULL
       /\ loads' = Append(loads, [phase |-> "sent", superseded |-> FALSE,
                                  refreshOf |-> refreshOf, res |-> NoResponse])

\* The behaviour may start n more invocations.
MayCall(n) == n <= credit

\* useEffect(() => { fetchData() }, [])
Mount ==
  /\ ~mounted
  /\ mounted' = TRUE
  /\ fetchData(<< >>)
  /\ credit' = IF ConfigIncomplete THEN credit ELSE credit - 1
  /\ lastStep' = NoStep
  /\ UNCHANGED << envVars, dbVars, formVars, searchFormVars, lookupVars, viewVars,
                  adds, deletes, searches, isSubmitting, searchResults,
                  allTransactions, download >>

\* The banner's "Check Connection Again" button, shown while error is set.
Retry ==
  /\ mounted
  /\ error # NULL
  /\ MayCall(1)
  /\ fetchData(<< >>)
  /\ credit' = IF ConfigIncomplete THEN credit ELSE credit - 1
  /\ lastStep' = NoStep
  /\ UNCHANGED << envVars, dbVars, formVars, searchFormVars, lookupVars, viewVars,
                  adds, deletes, searches, isSubmitting, searchResults,
                  allTransactions, mounted, download >>

\* The store answers the four selects of the i-th pending load.
ServeLoad(i) ==
  /\ loads[i].phase = "sent"
  /\ \E outcome \in Outcomes :
       \E failed \in (IF outcome = "ok" THEN { {} }
                      ELSE IF outcome = "rejected" THEN RejectSets
                      ELSE { Tables }) :
         loads' = [loads EXCEPT ![i] =
                     [phase |-> "answered", superseded |-> @.superseded,
                      refreshOf |-> @.refreshOf,
                      res |-> LoadResponse(failed, outcome = "unreachable")]]
  /\ lastStep' = NoStep
  /\ UNCHANGED << envVars, dbVars, formVars, searchFormVars, lookupVars, viewVars,
                  adds, deletes, searches, isSubmitting, searchResults,
                  allTransactions, isLoading, error, mounted, credit,
                  download >>

\* errors.length > 0: the load throws instead of applying anything.
LoadThrows(res) == res.failed # {}

\* A load that applies the results of the selects that did answer.
LoadAppliedPartly(res) == Tables \ res.failed

\* The tables whose result fetchData applies.
LoadApplied(res) == IF LoadThrows(res) THEN {} ELSE Tables

\* The pending loads once the i-th has resumed: it is gone, and when it applied
\* its results every load issued before it is from then on superseded.
LoadsAfter(i) ==
  LET marked == [ j \in DOMAIN loads |->
                    IF j < i /\ ~LoadThrows(loads[i].res)
                    THEN [loads[j] EXCEPT !.superseded = TRUE] ELSE loads[j] ]
  IN RemoveAt(marked, i)

\* fetchData from its await on: the error test, the four setters or the catch,
\* and the finally.
ResumeLoad(i) ==
  /\ loads[i].phase = "answered"
  /\ LET res == loads[i].res
         applied == LoadApplied(res)
     IN /\ categories' = IF "categories" \in applied THEN res.categories ELSE categories
        /\ accounts' = IF "accounts" \in applied THEN res.accounts ELSE accounts
        /\ payers' = IF "payers" \in applied THEN res.payers ELSE payers
        /\ allTransactions' = IF "transactions" \in applied THEN res.transactions
                              ELSE allTransactions
        /\ error' = IF ~LoadThrows(res) THEN error
                    ELSE IF res.network THEN NetworkMsg ELSE SupabaseMsg
        /\ lastStep' = Step(IF LoadThrows(res) THEN "load.failed" ELSE "load.applied",
                             0, loads[i].refreshOf)
  /\ isLoading' = FALSE
  /\ loads' = LoadsAfter(i)
  /\ UNCHANGED << envVars, dbVars, formVars, searchFormVars, viewVars,
                  adds, deletes, searches, isSubmitting, searchResults,
                  mounted, credit, download >>

\* ----------------------------------------------- handleAddTransaction

Names(rows) == { rows[k].name : k \in DOMAIN rows }

\* A guard that tests the amount alone.
SubmitIgnoredOnAmount == amount = ""

\* if (!amount || isSubmitting) return
SubmitIgnored == amount = "" \/ isSubmitting

\* The requests of one insert, in the order the handler awaits them.
AddSteps == << "transactions", "categories", "accounts", "payers" >>

\* The lookup test of the invocation's closure: the value is set and the
\* collection the handler was rendered with does not hold it.
NeedsLookup(call, table) ==
  CASE table = "categories" ->
         call.category # "" /\ call.category \notin Names(call.categories)
    [] table = "accounts" ->
         call.fromAccount # "" /\ call.fromAccount \notin Names(call.accounts)
    [] table = "payers" ->
         call.paidBy # "" /\ call.paidBy \notin Names(call.payers)

StepIndex(step) == CHOOSE k \in DOMAIN AddSteps : AddSteps[k] = step

\* The next request the invocation makes after its current one ("done": none).
NextLookup(call) ==
  LET later == { k \in DOMAIN AddSteps :
                   k > StepIndex(call.step) /\ NeedsLookup(call, AddSteps[k]) }
  IN IF later = {} THEN "done"
     ELSE AddSteps[CHOOSE k \in later : \A m \in later : k <= m]

\* A row built with account and payer in each other's place.
NewTransactionSwapped ==
  [date |-> date, category |-> category, item |-> item, vendor |-> vendor,
   amount |-> parseFloat(amount), from_account |-> paidBy,
   paid_by |-> fromAccount]

\* const newTransaction = { date, category, ..., paid_by: paidBy }
NewTransaction ==
  [date |-> date, category |-> category, item |-> item, vendor |-> vendor,
   amount |-> parseFloat(amount), from_account |-> fromAccount,
   paid_by |-> paidBy]

\* The form's submit, up to the await of the transaction insert.  The pending
\* invocation keeps the request, its response, and the state its closure was
\* rendered with: the form's fields and the three lookup collections.
handleAddTransaction ==
  /\ mounted
  /\ activeTab = "input"
  /\ IF SubmitIgnored
     THEN /\ lastStep' = Step("submit.ignored", 0, << >>)
          /\ UNCHANGED << adds, isSubmitting >>
     ELSE /\ MayCall(2)
          /\ isSubmitting' = TRUE
          /\ adds' = Append(adds,
               [step |-> "transactions", phase |-> "sent", error |-> FALSE,
                data |-> << >>, newTransaction |-> NewTransaction,
                date |-> date, category |-> category, item |-> item,
                vendor |-> vendor, amount |-> amount,
                fromAccount |-> fromAccount, paidBy |-> paidBy,
                categories |-> categories, accounts |-> accounts,
                payers |-> payers])
          /\ lastStep' = NoStep
  /\ credit' = IF SubmitIgnored THEN credit ELSE credit - 2
  /\ UNCHANGED << envVars, dbVars, formVars, searchFormVars, lookupVars, viewVars,
                  loads, deletes, searches, searchResults, allTransactions,
                  isLoading, error, mounted, download >>

\* The row the store keeps for an inserted transaction.
StoredRow(t) ==
  [id |-> nextId, date |-> t.date, category |-> t.category, item |-> t.item,
   vendor |-> t.vendor, amount |-> t.amount, from_account |-> t.from_account,
   paid_by |-> t.paid_by, created_at |-> nextId]

\* The store answers from('transactions').insert([newTransaction]).select().
ServeInsert(i) ==
  /\ adds[i].phase = "sent"
  /\ adds[i].step = "transactions"
  /\ \E outcome \in Answers :
       IF outcome = "ok"
       THEN /\ dbTransactions' = dbTransactions \cup { StoredRow(adds[i].newTransaction) }
            /\ nextId' = nextId + 1
            /\ adds' = [adds EXCEPT ![i].phase = "answered",
                                    ![i].data = << StoredRow(adds[i].newTransaction) >>]
            /\ lastStep' = NoStep
       ELSE /\ adds' = [adds EXCEPT ![i].phase = "answered", ![i].error = TRUE]
            /\ lastStep' = NoStep
            /\ UNCHANGED << dbTransactions, nextId >>
  /\ UNCHANGED << envVars, dbCategories, dbAccounts, dbPayers, formVars,
                  searchFormVars, lookupVars, viewVars, loads, deletes, searches,
                  isSubmitting, searchResults, allTransactions, isLoading, error,
                  mounted, credit, download >>

\* The store answers from(table).insert([{ name }]) of a lookup table.
ServeLookupInsert(i) ==
  /\ adds[i].phase = "sent"
  /\ adds[i].step # "transactions"
  /\ \E outcome \in Answers :
       LET ok == outcome = "ok"
           step == adds[i].step
       IN /\ dbCategories' = IF ok /\ step = "categories"
                             THEN Append(dbCategories, adds[i].category)
                             ELSE dbCategories
          /\ dbAccounts' = IF ok /\ step = "accounts"
                           THEN Append(dbAccounts, adds[i].fromAccount)
                           ELSE dbAccounts
          /\ dbPayers' = IF ok /\ step = "payers"
                         THEN Append(dbPayers, adds[i].paidBy)
                         ELSE dbPayers
          /\ adds' = [adds EXCEPT ![i].phase = "answered", ![i].error = ~ok]
          /\ lastStep' = NoStep
  /\ UNCHANGED << envVars, dbTransactions, nextId, formVars, searchFormVars,
                  lookupVars, viewVars, loads, deletes, searches, isSubmitting,
                  searchResults, allTransactions, isLoading, error, mounted,
                  credit, download >>

\* A handler that tests the result of every insert it awaits.
AddThrowsAny(call) == call.error

\* if (error) throw error: only the transaction insert's result is tested.
AddThrows(call) == call.step = "transactions" /\ call.error

\* The catch and the finally of a failed insert.
AddFailed(i) ==
  /\ adds[i].phase = "answered"
  /\ AddThrows(adds[i])
  /\ isSubmitting' = FALSE
  /\ adds' = RemoveAt(adds, i)
  /\ lastStep' = Step("add.failed", 0, << >>)
  /\ credit' = credit + 1
  /\ UNCHANGED << envVars, dbVars, formVars, searchFormVars, lookupVars, viewVars,
                  loads, deletes, searches, searchResults, allTransactions,
                  isLoading, error, mounted, download >>

\* The handler goes on to the next lookup insert it awaits.
AddContinue(i) ==
  /\ adds[i].phase = "answered"
  /\ ~AddThrows(adds[i])
  /\ NextLookup(adds[i]) # "done"
  /\ adds' = [adds EXCEPT ![i].step = NextLookup(adds[i]),
                          ![i].phase = "sent", ![i].error = FALSE]
  /\ lastStep' = NoStep
  /\ UNCHANGED << envVars, dbVars, formVars, searchFormVars, lookupVars, viewVars,
                  loads, deletes, searches, isSubmitting, searchResults,
                  allTransactions, isLoading, error, mounted, credit,
                  download >>

\* The handler's tail: the refresh, the form and page resets, the finally.
AddFinish(i) ==
  /\ adds[i].phase = "answered"
  /\ ~AddThrows(adds[i])
  /\ NextLookup(adds[i]) = "done"
  /\ fetchData(adds[i].data)
  /\ amount' = "" /\ category' = "" /\ item' = "" /\ vendor' = ""
  /\ fromAccount' = "" /\ paidBy' = ""
  /\ date' = getLocalDate
  /\ currentPage' = 1
  /\ isSubmitting' = FALSE
  /\ adds' = RemoveAt(adds, i)
  /\ lastStep' = Step("add.done", adds[i].data[1].id, adds[i].data)
  /\ UNCHANGED << envVars, dbVars, searchFormVars, lookupVars, activeTab,
                  sortConfig, deletes, searches, searchResults, allTransactions,
                  mounted, credit, download >>

\* -------------------------------------------- handleDeleteTransaction

\* A filter with its test inverted.
FilterOnly(rows, id) == SelectSeq(rows, LAMBDA t : t.id = id)

\* prev.filter(t => t.id !== id)
FilterOut(rows, id) == SelectSeq(rows, LAMBDA t : t.id # id)

\* The ids of the rows that show a trash button: the page's rows, on the input
\* tab, unless the grid shows its spinner.
ClickableIds ==
  IF activeTab = "input" /\ ~isLoading
  THEN { paginatedData[k].id : k \in DOMAIN paginatedData }
  ELSE {}

\* The trash button of a displayed row (id is drawn from ClickableIds) and the
\* confirm dialog, up to the await.
handleDeleteTransaction(id, confirmed) ==
  /\ mounted
  /\ activeTab = "input"
  /\ ~isLoading
  /\ \E k \in DOMAIN allTransactions : allTransactions[k].id = id
  /\ IF confirmed
     THEN /\ MayCall(1)
          /\ deletes' = Append(deletes,
               [id |-> id, phase |-> "sent", error |-> FALSE,
                searchResults |-> searchResults])
          /\ credit' = credit - 1
          /\ lastStep' = NoStep
     ELSE /\ lastStep' = NoStep
          /\ UNCHANGED << deletes, credit >>
  /\ UNCHANGED << envVars, dbVars, formVars, searchFormVars, lookupVars, viewVars,
                  loads, adds, searches, isSubmitting, searchResults,
                  allTransactions, isLoading, error, mounted, download >>

\* The store answers from('transactions').delete().eq('id', id).
ServeDelete(i) ==
  /\ deletes[i].phase = "sent"
  /\ \E outcome \in Answers :
       /\ dbTransactions' = IF outcome = "ok"
                            THEN { t \in dbTransactions : t.id # deletes[i].id }
                            ELSE dbTransactions
       /\ deletes' = [deletes EXCEPT ![i].phase = "answered",
                                     ![i].error = (outcome # "ok")]
  /\ lastStep' = NoStep
  /\ UNCHANGED << envVars, dbCategories, dbAccounts, dbPayers, nextId, formVars,
                  searchFormVars, lookupVars, viewVars, loads, adds, searches,
                  isSubmitting, searchResults, allTransactions, isLoading, error,
                  mounted, credit, download >>

\* A handler that does not test the result's error.
DeleteNeverThrows(call) == FALSE

\* if (error) throw error
DeleteThrows(call) == call.error

\* The handler from its await on: the two local removals, or the catch.
ResumeDelete(i) ==
  /\ deletes[i].phase = "answered"
  /\ LET call == deletes[i]
     IN IF DeleteThrows(call)
        THEN /\ lastStep' = Step("delete.failed", call.id, << >>)
             /\ UNCHANGED << allTransactions, searchResults >>
        ELSE /\ allTransactions' = FilterOut(allTransactions, call.id)
             /\ searchResults' =
                  IF call.searchResults.null THEN searchResults
                  ELSE IF searchResults.null THEN Null
                  ELSE Held(FilterOut(searchResults.rows, call.id))
             /\ lastStep' = Step("delete.done", call.id, << >>)
  /\ deletes' = RemoveAt(deletes, i)
  /\ UNCHANGED << envVars, dbVars, formVars, searchFormVars, lookupVars, viewVars,
                  loads, adds, searches, isSubmitting, isLoading, error, mounted,
                  credit, download >>

\* --------------------------------------------------------- handleSearch

\* The filter the query builds: gte and lte on date, eq on category.
Matches(t, q) ==
  /\ q.fromDate # "" => ~StrLess(t.date, q.fromDate)
  /\ q.toDate # "" => ~StrLess(q.toDate, t.date)
  /\ q.searchCategory # "" => t.category = q.searchCategory

\* The filtered select ordered by date, latest first (rows of one date in
\* insertion order).
SelectSearch(q) ==
  LET Before(a, b) == StrLess(b.date, a.date) \/ (a.date = b.date /\ a.id < b.id)
      rows == { t \in dbTransactions : Matches(t, q) }
  IN OrderBy(rows, { p \in rows \X rows : Before(p[1], p[2]) })

\* The search form's submit, up to the await.
handleSearch ==
  /\ mounted
  /\ activeTab = "search"
  /\ MayCall(1)
  /\ isLoading' = TRUE
  /\ searches' = Append(searches,
       [phase |-> "sent", error |-> FALSE, data |-> << >>,
        query |-> [fromDate |-> fromDate, toDate |-> toDate,
                   searchCategory |-> searchCategory]])
  /\ credit' = credit - 1
  /\ lastStep' = NoStep
  /\ UNCHANGED << envVars, dbVars, formVars, searchFormVars, lookupVars, viewVars,
                  loads, adds, deletes, isSubmitting, searchResults,
                  allTransactions, error, mounted, download >>

\* The store answers the filtered select.
ServeSearch(i) ==
  /\ searches[i].phase = "sent"
  /\ \E outcome \in Answers :
       searches' = [searches EXCEPT
                      ![i].phase = "answered",
                      ![i].error = (outcome # "ok"),
                      ![i].data = IF outcome = "ok"
                                  THEN SelectSearch(searches[i].query) ELSE << >>]
  /\ lastStep' = NoStep
  /\ UNCHANGED << envVars, dbVars, formVars, searchFormVars, lookupVars, viewVars,
                  loads, adds, deletes, isSubmitting, searchResults,
                  allTransactions, isLoading, error, mounted, credit,
                  download >>

\* if (error) throw error
SearchThrows(call) == call.error

\* A handler that takes an empty result for no result.
SearchStoredUnlessEmpty(data) == IF data = << >> THEN Null ELSE Held(data)

\* setSearchResults(data)
SearchStored(data) == Held(data)

\* The handler from its await on: the two setters or the catch, and the finally.
ResumeSearch(i) ==
  /\ searches[i].phase = "answered"
  /\ IF SearchThrows(searches[i])
     THEN /\ lastStep' = Step("search.failed", 0, << >>)
          /\ UNCHANGED << searchResults, currentPage >>
     ELSE /\ searchResults' = SearchStored(searches[i].data)
          /\ currentPage' = 1
          /\ lastStep' = Step("search.done", 0, << >>)
  /\ isLoading' = FALSE
  /\ searches' = RemoveAt(searches, i)
  /\ UNCHANGED << envVars, dbVars, formVars, searchFormVars, lookupVars, activeTab,
                  sortConfig, loads, adds, deletes, isSubmitting, allTransactions,
                  error, mounted, credit, download >>

\* ------------------------------------------------------ view handlers

\* setActiveTab
SetActiveTab(tab) ==
  /\ mounted
  /\ activeTab # tab
  /\ activeTab' = tab
  /\ lastStep' = NoStep
  /\ UNCHANGED << envVars, dbVars, formVars, searchFormVars, lookupVars,
                  currentPage, sortConfig, callVars, isSubmitting, searchResults,
                  allTransactions, isLoading, error, mounted, credit,
                  download >>

\* The onChange setters of the record form.
FillForm(f) ==
  /\ mounted
  /\ activeTab = "input"
  /\ date' = f.date /\ category' = f.category /\ item' = f.item
  /\ vendor' = f.vendor /\ amount' = f.amount
  /\ fromAccount' = f.fromAccount /\ paidBy' = f.paidBy
  /\ formVars' # formVars
  /\ lastStep' = NoStep
  /\ UNCHANGED << envVars, dbVars, searchFormVars, lookupVars, viewVars, callVars,
                  isSubmitting, searchResults, allTransactions, isLoading, error,
                  mounted, credit, download >>

\* The onChange setters of the search form; the category is one of the select's
\* options.
FillSearchForm(q) ==
  /\ mounted
  /\ activeTab = "search"
  /\ q.searchCategory \in {""} \cup Names(categories)
  /\ fromDate' = q.fromDate /\ toDate' = q.toDate
  /\ searchCategory' = q.searchCategory
  /\ searchFormVars' # searchFormVars
  /\ lastStep' = NoStep
  /\ UNCHANGED << envVars, dbVars, formVars, lookupVars, viewVars, callVars,
                  isSubmitting, searchResults, allTransactions, isLoading, error,
                  mounted, credit, download >>

Max(a, b) == IF a > b THEN a ELSE b
Min(a, b) == IF a < b THEN a ELSE b

\* The grid is rendered: always on the input tab, with held results on the other.
GridShown == activeTab = "input" \/ ~searchResults.null

\* The column headers the user clicks.
SortKeys == {"date", "amount"}

\* A direction that flips whatever the key.
NextDirectionFlip(key) == IF sortConfig.direction = "asc" THEN "desc" ELSE "asc"

\* The direction requestSort sets for key.
NextDirection(key) ==
  IF sortConfig.key = key /\ sortConfig.direction = "asc" THEN "desc" ELSE "asc"

\* A click on a column header of the grid.
requestSort(key) ==
  /\ mounted
  /\ GridShown
  /\ sortConfig' = [key |-> key, direction |-> NextDirection(key)]
  /\ lastStep' = NoStep
  /\ UNCHANGED << envVars, dbVars, formVars, searchFormVars, lookupVars, activeTab,
                  currentPage, callVars, isSubmitting, searchResults,
                  allTransactions, isLoading, error, mounted, credit,
                  download >>

\* The previous-page button.
PrevPage ==
  /\ mounted
  /\ GridShown
  /\ totalPages > 1
  /\ currentPage # 1
  /\ currentPage' = Max(1, currentPage - 1)
  /\ lastStep' = NoStep
  /\ UNCHANGED << envVars, dbVars, formVars, searchFormVars, lookupVars, activeTab,
                  sortConfig, callVars, isSubmitting, searchResults,
                  allTransactions, isLoading, error, mounted, credit,
                  download >>

\* The next-page button.
NextPage ==
  /\ mounted
  /\ GridShown
  /\ totalPages > 1
  /\ currentPage # totalPages
  /\ currentPage' = Min(totalPages, currentPage + 1)
  /\ lastStep' = NoStep
  /\ UNCHANGED << envVars, dbVars, formVars, searchFormVars, lookupVars, activeTab,
                  sortConfig, callVars, isSubmitting, searchResults,
                  allTransactions, isLoading, error, mounted, credit,
                  download >>

\* -------------------------------------------------------- exportToCSV

\* seq's strings with sep between them: Array.prototype.join.
RECURSIVE Join(_, _)
Join(seq, sep) ==
  IF seq = << >> THEN ""
  ELSE IF Len(seq) = 1 THEN seq[1]
  ELSE Join(SubSeq(seq, 1, Len(seq) - 1), sep) \o sep \o seq[Len(seq)]

\* Number.prototype.toFixed(2) of an amount held in hundredths, not negative.
toFixed2(hundredths) ==
  ToString(hundredths \div 100) \o "." \o
  ToString((hundredths % 100) \div 10) \o ToString(hundredths % 10)

\* No file was handed over yet.
NoDownload == [download |-> "", content |-> ""]

csvHeaders == << "Date", "Category", "Item", "Vendor", "Amount", "Account", "Paid By" >>

\* The cells of a record's row.
csvCells(t) ==
  << t.date, t.category, t.item, t.vendor, toFixed2(t.amount), t.from_account,
     t.paid_by >>

\* row.map(val => `"${val}"`).join(',')
csvLine(row) == Join([ k \in DOMAIN row |-> "\"" \o row[k] \o "\"" ], ",")

\* The records as the grid shows them, all pages.
exportedAsShown == sortedData

\* The records exportToCSV maps to rows.
exported == searchResults.rows

csvContent ==
  Join(<< Join(csvHeaders, ",") >> \o
         [ k \in DOMAIN exported |-> csvLine(csvCells(exported[k])) ],
       "\n")

\* The handler of the search form's export button, also when the button is
\* not rendered.
exportToCSV ==
  /\ mounted
  /\ activeTab = "search"
  /\ IF searchResults.null \/ Len(searchResults.rows) = 0
     THEN /\ lastStep' = Step("export.ignored", 0, << >>)
          /\ UNCHANGED download
     ELSE /\ download' = [download |-> "consumption_records_" \o getLocalDate \o ".csv",
                          content |-> csvContent]
          /\ lastStep' = Step("export.done", 0, << >>)
  /\ UNCHANGED << envVars, dbVars, formVars, searchFormVars, lookupVars, viewVars,
                  callVars, isSubmitting, searchResults, allTransactions,
                  isLoading, error, mounted, credit >>

\* ------------------------------------------------------ specification

InitApp ==
  /\ activeTab = "input"
  /\ date = getLocalDate
  /\ category = "" /\ item = "" /\ vendor = "" /\ amount = ""
  /\ fromAccount = "" /\ paidBy = ""
  /\ isSubmitting = FALSE
  /\ fromDate = getLocalDate /\ toDate = getLocalDate /\ searchCategory = ""
  /\ searchResults = Null
  /\ currentPage = 1
  /\ sortConfig = [key |-> "created_at", direction |-> "desc"]
  /\ categories = << >> /\ accounts = << >> /\ payers = << >>
  /\ allTransactions = << >>
  /\ isLoading = TRUE
  /\ error = NULL
  /\ loads = << >> /\ adds = << >> /\ deletes = << >> /\ searches = << >>
  /\ download = NoDownload
  /\ mounted = FALSE
  /\ lastStep = NoStep

\* The store as the session finds it: n transactions and their lookup values.
InitStore(n) ==
  /\ dbTransactions = { Seed(i) : i \in 1..n }
  /\ dbCategories = IF n = 0 THEN << >> ELSE << "Food" >>
  /\ dbAccounts = IF n = 0 THEN << >> ELSE << "Checking" >>
  /\ dbPayers = IF n = 0 THEN << >> ELSE << "Alice" >>
  /\ nextId = n + 1

InitEnv(env) ==
  /\ VITE_SUPABASE_URL = env.url
  /\ VITE_SUPABASE_ANON_KEY = env.key

\* A session on any of the environments; its store holds NumSeeds
\* transactions when it can be reached.
Init ==
  /\ InitApp
  /\ \E env \in EnvInputs : InitEnv(env)
  /\ InitStore(IF StoreReachable THEN NumSeeds ELSE 0)
  /\ credit = MaxCalls

\* The handlers and the store's steps that every specification has.
Core ==
  \/ Mount
  \/ Retry
  \/ \E i \in DOMAIN loads : ServeLoad(i)
  \/ \E i \in DOMAIN loads : ResumeLoad(i)
  \/ \E id \in ClickableIds, confirmed \in BOOLEAN :
       handleDeleteTransaction(id, confirmed)
  \/ \E i \in DOMAIN deletes : ServeDelete(i)
  \/ \E i \in DOMAIN deletes : ResumeDelete(i)
  \/ handleSearch
  \/ \E i \in DOMAIN searches : ServeSearch(i)
  \/ \E i \in DOMAIN searches : ResumeSearch(i)
  \/ \E tab \in {"input", "search"} : SetActiveTab(tab)
  \/ \E q \in SearchInputs : FillSearchForm(q)

\* The record form and the insert.
Inserts ==
  \/ \E f \in FormInputs : FillForm(f)
  \/ handleAddTransaction
  \/ \E i \in DOMAIN adds : ServeInsert(i)
  \/ \E i \in DOMAIN adds : ServeLookupInsert(i)
  \/ \E i \in DOMAIN adds : AddFailed(i)
  \/ \E i \in DOMAIN adds : AddContinue(i)
  \/ \E i \in DOMAIN adds : AddFinish(i)

\* The grid's sort headers and page buttons, and the export.
Paging ==
  \/ \E key \in SortKeys : requestSort(key)
  \/ PrevPage
  \/ NextPage
  \/ exportToCSV

\* A session on a store of few rows.  The collections it holds never exceed
\* one page (NumSeeds + MaxCalls <= itemsPerPage), so the page buttons are never
\* rendered and every row is on the page whatever the sort order: no handler
\* of Next reads what a sort header would change.
Next == Core \/ Inserts

Spec == Init /\ [][Next]_vars

\* The numbers of rows of a paged store: a full page, one row more, and two
\* pages and a row.
PagedSizes == { itemsPerPage, itemsPerPage + 1, 2 * itemsPerPage + 1 }

\* A session on a store of a page of rows or more, with the grid's sort and
\* page handlers and without the record form.
InitPaged ==
  /\ InitApp
  /\ InitEnv(CHOOSE env \in EnvInputs : env.url # "" /\ ~IncludesPlaceholder(env.key))
  /\ \E n \in PagedSizes : InitStore(n)
  /\ credit = PagedCalls

NextPaged == Core \/ Paging

SpecPaged == InitPaged /\ [][NextPaged]_vars

\* ------------------------------------------------------------ claims

\* The data collections fetchData fills.
collections == << allTransactions, categories, accounts, payers >>

Ids(rows) == { rows[k].id : k \in DOMAIN rows }

\* This step resumes the i-th pending load.
LoadResumes(i) == loads[i].phase = "answered" /\ loads' = LoadsAfter(i)

\* This step resumes the i-th pending delete.
DeleteResumes(i) == deletes[i].phase = "answered" /\ deletes' = RemoveAt(deletes, i)

\* This step resumes the i-th pending search.
SearchResumes(i) == searches[i].phase = "answered" /\ searches' = RemoveAt(searches, i)

\* C1: of two overlapping loads the one issued last decides the collections:
\* the response of a load that a later issued load has already followed with
\* its own results changes none of the four collections.
C1_StaleLoadNeverOverwrites ==
  [][\A i \in DOMAIN loads :
       (LoadResumes(i) /\ loads[i].superseded) => UNCHANGED collections]_vars

\* C2: a load of which a select reported an error, or which never reached the
\* store, leaves all four collections as they were.
C2_FailedLoadKeepsCollections ==
  [][\A i \in DOMAIN loads :
       (LoadResumes(i) /\ loads[i].res.failed # {}) => UNCHANGED collections]_vars

\* C2 witness: a load has just failed on a rejected select, its other selects
\* answered, in a session that holds transactions and categories.
C2_Witness ==
  /\ lastStep.name = "load.failed"
  /\ error = SupabaseMsg
  /\ allTransactions # << >>
  /\ categories # << >>

\* C3: at most one insert is in flight, and isSubmitting is set for as long as
\* it is, so that a submit in that time is ignored.
C3_OneInsertInFlight ==
  /\ Len(adds) <= 1
  /\ adds # << >> => isSubmitting

\* C3 witness: a submit of a filled form has just been ignored while an insert
\* is in flight.
C3_Witness ==
  /\ lastStep.name = "submit.ignored"
  /\ amount # ""
  /\ Len(adds) = 1

\* C4: a successful delete of an id that allTransactions holds removes the one
\* record of that id and keeps the others in their order; of an id it does not
\* hold, it leaves allTransactions as it is.
C4_DeleteRemovesExactlyOne ==
  [][\A i \in DOMAIN deletes :
       (DeleteResumes(i) /\ ~deletes[i].error) =>
         LET at == { k \in DOMAIN allTransactions :
                       allTransactions[k].id = deletes[i].id }
         IN IF at = {} THEN allTransactions' = allTransactions
            ELSE \E k \in at :
                   /\ at = {k}
                   /\ allTransactions' = RemoveAt(allTransactions, k)]_vars

\* C4 witness: a delete has just removed a record and left others.
C4_Witness ==
  /\ lastStep.name = "delete.done"
  /\ allTransactions # << >>
  /\ lastStep.id \notin Ids(allTransactions)
  /\ lastStep.id \notin { t.id : t \in dbTransactions }

\* C5: when a delete has completed successfully, held search results have no
\* record of its id.
C5_DeletedLeavesSearchResults ==
  lastStep.name = "delete.done" =>
    (searchResults.null \/ lastStep.id \notin Ids(searchResults.rows))

\* This step starts or fails an insert, a delete or a search.
StartsOrFails ==
  \/ Len(adds') > Len(adds)
  \/ Len(deletes') > Len(deletes)
  \/ Len(searches') > Len(searches)
  \/ \E i \in DOMAIN adds :
       /\ adds[i].phase = "answered" /\ adds[i].step = "transactions"
       /\ adds[i].error
       /\ adds' = RemoveAt(adds, i)
  \/ \E i \in DOMAIN deletes : DeleteResumes(i) /\ deletes[i].error
  \/ \E i \in DOMAIN searches : SearchResumes(i) /\ searches[i].error

\* C6: the start and the failure of an insert, a delete or a search change
\* none of allTransactions, the lookup collections, searchResults and error.
C6_FailureKeepsState ==
  [][StartsOrFails => UNCHANGED << collections, searchResults, error >>]_vars

\* C6 witness: a delete has just failed in a session that holds transactions.
C6_Witness ==
  /\ lastStep.name = "delete.failed"
  /\ lastStep.id \in Ids(allTransactions)

\* C7: with an incomplete configuration no request is pending, and once mounted
\* the session shows the configuration error.
C7_NoRequestWithoutConfig ==
  ConfigIncomplete =>
    /\ loads = << >> /\ adds = << >> /\ deletes = << >> /\ searches = << >>
    /\ mounted => error = ConfigMsg

\* C8: searchResults is null at first; only a successful search makes it
\* non-null, storing the rows it found, be they none; nothing makes it null
\* again; and no step of a search changes allTransactions.
C8_SearchResultsLifecycle ==
  /\ searchResults.null
  /\ [][/\ searches' # searches => allTransactions' = allTransactions
        /\ (searchResults.null /\ ~searchResults'.null) =>
             \E i \in DOMAIN searches : SearchResumes(i) /\ ~searches[i].error
        /\ \A i \in DOMAIN searches :
             (SearchResumes(i) /\ ~searches[i].error) =>
               /\ ~searchResults'.null
               /\ searchResults'.rows = searches[i].data
        /\ ~searchResults.null => ~searchResults'.null]_vars

\* C8 witness: a search has just succeeded with no match.
C8_Witness ==
  /\ lastStep.name = "search.done"
  /\ ~searchResults.null
  /\ searchResults.rows = << >>

\* C9: the page number is within 1..max(1, totalPages) of the displayed
\* collection.
C9_PageInRange ==
  /\ 1 <= currentPage
  /\ currentPage <= Max(1, totalPages)

\* The rows held anywhere: in the store, in the session, in a pending response.
KnownIds ==
  UNION ( { { t.id : t \in dbTransactions }, Ids(allTransactions),
            Ids(searchResults.rows) }
          \cup { Ids(loads[i].res.transactions) : i \in DOMAIN loads }
          \cup { Ids(searches[i].data) : i \in DOMAIN searches }
          \cup { Ids(adds[i].data) : i \in DOMAIN adds } )

\* This step resumes, with its results applied, the refresh load of an insert.
RefreshResumes(i) ==
  LoadResumes(i) /\ loads[i].res.failed = {} /\ loads[i].refreshOf # << >>

\* C10 as stated: when the refresh load of a successful insert has resolved
\* successfully, the inserted record is the first of allTransactions.
C10_InsertedIsFirstAfterRefresh ==
  [][\A i \in DOMAIN loads :
       RefreshResumes(i) =>
         /\ allTransactions' # << >>
         /\ allTransactions'[1] = loads[i].refreshOf[1]]_vars

\* C10 as amended: the store keeps the submitted fields under an id that no
\* row held before; and when the refresh load has resolved successfully,
\* allTransactions holds that row if the store still does, behind no row but
\* those inserted after it.
C10_InsertedIsHeldAfterRefresh ==
  /\ [](\A id \in KnownIds : id < nextId)
  /\ [][/\ \A i \in DOMAIN adds :
             (/\ adds[i].step = "transactions" /\ adds[i].phase = "sent"
              /\ DOMAIN adds' = DOMAIN adds
              /\ adds'[i].phase = "answered" /\ ~adds'[i].error) =>
               LET row == adds'[i].data[1]
               IN /\ Len(adds'[i].data) = 1
                  /\ row \in dbTransactions'
                  /\ row.id \notin KnownIds
                  /\ row.date = adds[i].date
                  /\ row.category = adds[i].category
                  /\ row.item = adds[i].item
                  /\ row.vendor = adds[i].vendor
                  /\ row.amount = parseFloat(adds[i].amount)
                  /\ row.from_account = adds[i].fromAccount
                  /\ row.paid_by = adds[i].paidBy
        /\ \A i \in DOMAIN loads :
             (RefreshResumes(i) /\ loads[i].refreshOf[1] \in dbTransactions) =>
               \E k \in DOMAIN allTransactions' :
                 /\ allTransactions'[k] = loads[i].refreshOf[1]
                 /\ \A j \in 1..(k - 1) :
                      allTransactions'[j].id > loads[i].refreshOf[1].id]_vars

\* C10 witness: the refresh load of an insert has just put the inserted row
\* first.
C10_Witness ==
  /\ lastStep.name = "load.applied"
  /\ lastStep.row # << >>
  /\ allTransactions # << >>
  /\ allTransactions[1] = lastStep.row[1]

\* No name occurs twice in the sequence.
Distinct(names) ==
  \A i, j \in DOMAIN names : names[i] = names[j] => i = j

\* C11: in each of the store's three lookup collections a name occurs at most
\* once.
C11_LookupNamesUnique ==
  /\ Distinct(dbCategories)
  /\ Distinct(dbAccounts)
  /\ Distinct(dbPayers)

\* This step goes on from, or completes, the i-th pending insert after a
\* lookup insert of it has failed.
AfterFailedLookup(i) ==
  /\ adds[i].phase = "answered"
  /\ adds[i].step # "transactions"
  /\ adds[i].error
  /\ adds' # adds

\* C12: a failed lookup insert fails nothing.  The handler goes on: the step
\* leaves the stored transactions alone and shows no failure, and when it is
\* the handler's last it issues the refresh load of the inserted row, empties
\* the form and sets the page to 1.
C12_LookupFailureIsNotFatal ==
  [][\A i \in DOMAIN adds :
       AfterFailedLookup(i) =>
         /\ dbTransactions' = dbTransactions
         /\ lastStep'.name # "add.failed"
         /\ error' = IF Len(adds') < Len(adds) THEN NULL ELSE error
         /\ \/ /\ Len(adds') = Len(adds)
               /\ adds'[i].phase = "sent"
               /\ adds'[i].step = NextLookup(adds[i])
            \/ /\ adds' = RemoveAt(adds, i)
               /\ NextLookup(adds[i]) = "done"
               /\ lastStep'.name = "add.done"
               /\ loads' = Append(loads, [phase |-> "sent", superseded |-> FALSE,
                                          refreshOf |-> adds[i].data,
                                          res |-> NoResponse])
               /\ amount' = "" /\ category' = "" /\ item' = "" /\ vendor' = ""
               /\ fromAccount' = "" /\ paidBy' = ""
               /\ currentPage' = 1
               /\ ~isSubmitting']_vars

\* C12 witness: an insert has just completed whose transaction the store
\* holds and whose category, new to the store, the store does not hold.
C12_Witness ==
  /\ lastStep.name = "add.done"
  /\ lastStep.row[1] \in dbTransactions
  /\ \A k \in DOMAIN dbCategories : dbCategories[k] # lastStep.row[1].category
  /\ loads # << >>
  /\ amount = ""

\* C16: right after a successful delete, and after the step that follows it,
\* allTransactions has no record of the deleted id.
C16_DeletedStaysOut ==
  /\ [](lastStep.name = "delete.done" => lastStep.id \notin Ids(allTransactions))
  /\ [][lastStep.name = "delete.done" =>
          lastStep.id \notin Ids(allTransactions')]_vars

\* C17: once mounted, isLoading is set exactly while a load or a search is in
\* flight.
C17_LoadingWhileInFlight ==
  mounted => (isLoading <=> (loads # << >> \/ searches # << >>))

\* The pages 1..n one after the other.
RECURSIVE ConcatPages(_)
ConcatPages(n) == IF n = 0 THEN << >> ELSE ConcatPages(n - 1) \o PageAt(n)

\* The least number of pages of size rows each that hold n rows.
Ceil(n, size) ==
  CHOOSE k \in 0..n : k * size >= n /\ \A m \in 0..(k - 1) : m * size < n

\* C13: totalPages is ceil(N / itemsPerPage) for the N rows of sortedData, and
\* the pages 1..totalPages, one after the other, are sortedData.
C13_PagesPartitionSortedData ==
  /\ totalPages = Ceil(Len(sortedData), itemsPerPage)
  /\ ConcatPages(totalPages) = sortedData

\* C13 witness: the grid shows the third page, of one row, of three.
C13_Witness ==
  /\ totalPages = 3
  /\ currentPage = 3
  /\ Len(paginatedData) = 1
  /\ Len(sortedData) = 2 * itemsPerPage + 1

\* C14: requestSort(key) would set the direction desc exactly when the
\* configuration is (key, asc); and a step that changes the configuration sets
\* a key of the grid, descending exactly when it was that key ascending.
C14_SortDirectionToggles ==
  /\ [](\A key \in SortKeys :
          NextDirection(key) = "desc" <=>
            sortConfig = [key |-> key, direction |-> "asc"])
  /\ [](\A key \in SortKeys : NextDirection(key) \in {"asc", "desc"})
  /\ [][sortConfig' # sortConfig =>
          /\ sortConfig'.key \in SortKeys
          /\ sortConfig'.direction \in {"asc", "desc"}
          /\ sortConfig'.direction = "desc" <=>
               (sortConfig.key = sortConfig'.key /\ sortConfig.direction = "asc")
          /\ UNCHANGED << currentPage, allTransactions, searchResults >>]_vars

\* C14 witness: a key requested, requested again, and another key requested
\* leave that other key ascending.
C14_Witness ==
  /\ sortConfig = [key |-> "amount", direction |-> "asc"]
  /\ currentPage = 2

\* The lines of a content: a header line, then a line for each of rows in
\* their order.
LinesOf(rows) ==
  << Join(csvHeaders, ",") >> \o [ k \in DOMAIN rows |-> csvLine(csvCells(rows[k])) ]

\* C15: an export hands over a file only of held, non-empty search results,
\* and its content is the header line and, in their stored order, a line for
\* each record of searchResults; an export of null or empty results hands
\* over nothing; nothing else hands over a file.
C15_ExportIsOfSearchResults ==
  [][/\ lastStep'.name = "export.done" =>
          /\ ~searchResults.null
          /\ searchResults.rows # << >>
          /\ download' # NoDownload
          /\ download'.content = Join(LinesOf(searchResults.rows), "\n")
     /\ lastStep'.name = "export.ignored" =>
          /\ searchResults.null \/ searchResults.rows = << >>
          /\ download' = download
     /\ download' # download => lastStep'.name = "export.done"]_vars

\* C15 witness: an export has just been made of several records that the
\* grid shows in another order than searchResults holds them.
C15_Witness ==
  /\ lastStep.name = "export.done"
  /\ Len(searchResults.rows) > 1
  /\ sortedData # searchResults.rows
  /\ sortConfig.key = "amount"

====
